---------------------------- MODULE Spec2Model ----------------------------
(***************************************************************************)
(* A model of app.py: the ECG acquisition loop (ecg_loop), the rule engine *)
(* (detect_events / set_event) and the request handlers /data, /reset and  *)
(* /report, with the lock RESET_LOCK that three of them take.              *)
(*                                                                         *)
(* Units.  time.time() is a float number of seconds; the model counts      *)
(* whole milliseconds, so 0.25 s is 250 and ASYSTOLE_SEC = 3.5 is 3500.    *)
(* QT proxies (rr * 0.45) and QRS widths (0.08 + |val - R|/100000) are     *)
(* kept in units of 1e-5 s, where both are whole numbers.  A quotient the  *)
(* code leaves as a float (the smoothed series) is kept as the pair        *)
(* [num, den].  None is modelled as 0: "if last_peak_time:" is false for   *)
(* both, and no timestamp is 0.                                            *)
(***************************************************************************)
EXTENDS Integers, Sequences, FiniteSets, TLC

(* ------------------------------ CONFIG -------------------------------- *)
SAMPLE_PERIOD_MS == 4
R_THRESHOLD == 15000
BRADY_BPM == 50
TACHY_BPM == 100
VTACH_BPM == 150
ASYSTOLE_MS == 3500
MIN_RR_MS == 250
MS_PER_MINUTE == 60000
RR_MAXLEN == 60
QRS_MAXLEN == 30
QT_MAXLEN == 30
SMOOTH_W == 5
ECG_TAIL == 1000
BPM_TAIL == 300
\* thresholds of detect_events: variances in ms^2, means in ms, widths and
\* QT values in 1e-5 s
VAR_IRREGULAR == 20000
VAR_SINUS == 30000
RR_MEAN_SINUS == 1200
RR_MEAN_AVBLOCK == 1000
VAR_AVBLOCK == 5000
QRS_BASE == 8000
QRS_BBB == 14000
QT_RATIO == 45
QT_LONG == 48000
QT_SHORT == 32000
\* R_THRESHOLD * 1.25 is R_THRESHOLD * ST_NUM / ST_DEN
ST_NUM == 5
ST_DEN == 4
ST_BPM == 100

(* ------------------------------ bounds -------------------------------- *)
\* the value of time.time() when the module is imported
ImportTime == 1000
\* write cycles of one run of the main specification
MaxCycles == 4
\* write cycles of one run of the smoothing specification
MaxSmoothCycles == 6
\* write cycles of one run of the export specification
MaxReportCycles == 2
\* write cycles whose samples the scheduling specification records
MaxLiveCycles == 2
\* write cycles of one run of the rhythm specification, and how many
\* samples between two resets may differ from the regular beat
MaxRhythmCycles == 9
MaxOdd == 1
\* write cycles of the rate specification
MaxRateCycles == 3
\* write cycles of the periodic specification: three periods of the longest
\* wave and one sample
MaxPeriodicCycles == 16
\* write cycles of the window specification: enough to fill the RR window
\* and evict from it
MaxWindowCycles == 86

\* chan.value readings: below the threshold, above it, above 1.25 times it
Values == {100, 16000, 20000}
\* milliseconds between two consecutive readings of time.time() in ecg_loop:
\* the clock is taken to move forward, by no less than the sleep of one
\* sample period
Deltas == {SAMPLE_PERIOD_MS, 250, 251, 3600}
SmoothValues == {10, 20, 30}
ReportValues == {100, 16000}
ReportDeltas == {SAMPLE_PERIOD_MS, 251}
LiveValues == {100, 16000}
\* the rhythm specification: every sample is a peak; the regular beat is
\* <<value, gap>> = RegularBeat
RegularBeat == <<20000, 1000>>
\* the samples that break the regular beat: a short gap, two long gaps,
\* and a peak below the ST elevation level, on time or late
OddBeats ==
    {<<20000, 500>>, <<20000, 1300>>, <<20000, 1500>>,
     <<16000, 1000>>, <<16000, 1500>>}
RhythmBeats == {RegularBeat} \cup OddBeats
LiveDeltas == {SAMPLE_PERIOD_MS, 251}

(* ---------------------------- GLOBAL STATE ---------------------------- *)
VARIABLES
    ecg_data, timestamps, bpm_history, bpm_timestamps,
    rr_intervals, qrs_widths, qt_intervals,
    event_state, event_counts, event_timeline,
    current_bpm, last_peak_time, last_signal_time,
    RESET_LOCK,
    clock,
    loop_pc, val, t,
    data_pc, smoothed, response,
    reset_pc,
    report_pc, it_timestamps, it_ecg_data, it_event_timeline, row_t, row_v,
    ecg_rows, it_bpm_timestamps, it_bpm_history, row_bt, bpm_rows,
    cycles, fresh_reset, logging, recorded, bpm_recorded

session == <<ecg_data, timestamps, bpm_history, bpm_timestamps,
             rr_intervals, qrs_widths, qt_intervals,
             event_state, event_counts, event_timeline,
             current_bpm, last_peak_time, last_signal_time>>
loop_vars == <<loop_pc, val, t, clock, cycles>>
data_vars == <<data_pc, smoothed, response>>
report_vars == <<report_pc, it_timestamps, it_ecg_data, it_event_timeline,
                 row_t, row_v, ecg_rows, it_bpm_timestamps, it_bpm_history,
                 row_bt, bpm_rows>>
history_vars == <<logging, recorded, bpm_recorded>>
vars == <<session, RESET_LOCK, loop_vars, data_vars, reset_pc, report_vars,
          fresh_reset, history_vars>>

(* ---------------------------- EVENT HELPERS --------------------------- *)
CARDIAC_EVENTS == {
    "Bradycardia",
    "Tachycardia",
    "Ventricular Tachycardia",
    "Asystole / Flatline",
    "Irregular Rhythm",
    "Sinus Node Dysfunction",
    "First-Degree AV Block (possible)",
    "Bundle Branch Block (possible)",
    "Long QT (possible)",
    "Short QT (possible)",
    "Early Repolarization / ST Elevation (possible)",
    "Myocarditis (possible)" }

\* the keys of a dict, in insertion order, as a duplicate-free sequence
Keys(d) == {d[i] : i \in 1..Len(d)}

RECURSIVE Without(_, _)
Without(d, name) ==
    IF d = <<>> THEN <<>>
    ELSE IF Head(d) = name THEN Without(Tail(d), name)
    ELSE <<Head(d)>> \o Without(Tail(d), name)

NoCounts == [e \in CARDIAC_EVENTS |-> 0]

\* an event set only on its rising edge, and dropped otherwise
set_event_edge_only(es, name, condition) ==
    IF condition /\ name \notin Keys(es.state)
    THEN [state |-> Append(es.state, name),
          counts |-> [es.counts EXCEPT ![name] = @ + 1]]
    ELSE [state |-> Without(es.state, name), counts |-> es.counts]

\* es is the pair of dicts [state |-> event_state, counts |-> event_counts]
set_event(es, name, condition) ==
    IF condition
    THEN [state |-> IF name \in Keys(es.state) THEN es.state
                    ELSE Append(es.state, name),
          counts |-> [es.counts EXCEPT ![name] = @ + 1]]
    ELSE [state |-> Without(es.state, name), counts |-> es.counts]

active_cardiac_flags(state) == SelectSeq(state, LAMBDA e : e \in CARDIAC_EVENTS)

(* ------------------------------ helpers ------------------------------- *)
Min(a, b) == IF a < b THEN a ELSE b
Max(a, b) == IF a > b THEN a ELSE b
Abs(a) == IF a < 0 THEN -a ELSE a

RECURSIVE SumSeq(_)
SumSeq(s) == IF s = <<>> THEN 0 ELSE Head(s) + SumSeq(Tail(s))

\* a full buffer that refuses the new value instead of evicting the oldest
DequeAppend_keeping_oldest(q, x, n) ==
    IF Len(q) < n THEN Append(q, x) ELSE q

\* deque(maxlen=n).append(x)
DequeAppend(q, x, n) ==
    IF Len(q) < n THEN Append(q, x) ELSE Append(Tail(q), x)

\* s[a:b] for 0 <= a
Slice(s, a, b) == SubSeq(s, a + 1, Min(b, Len(s)))

\* s[-n:]
LastN(s, n) == IF Len(s) <= n THEN s ELSE SubSeq(s, Len(s) - n + 1, Len(s))

(* --------------------------- EVENT DETECTION -------------------------- *)
\* sum((r - mean_rr) ** 2 for r in rr) / len(rr) is VarNum(rr) / n^3:
\* with n = len(rr) and S = sum(rr), r - S/n = (n*r - S)/n
RECURSIVE SqDevSum(_, _, _)
SqDevSum(rr, n, S) ==
    IF rr = <<>> THEN 0
    ELSE (n * Head(rr) - S) * (n * Head(rr) - S) + SqDevSum(Tail(rr), n, S)

VarNum(rr) == SqDevSum(rr, Len(rr), SumSeq(rr))

\* the sum of squared deviations compared with c, not divided by len(rr)
VarianceAbove_unnormalised(rr, c) ==
    LET n == Len(rr)
        q == VarNum(rr) \div (n * n)
        r == VarNum(rr) % (n * n)
    IN  q > c \/ (q = c /\ r > 0)

\* variance > c, that is VarNum(rr) > c * n^3, written with the
\* quotient and remainder by n*n so that no product leaves 32 bits
VarianceAbove(rr, c) ==
    LET n == Len(rr)
        q == VarNum(rr) \div (n * n)
        r == VarNum(rr) % (n * n)
    IN  q > c * n \/ (q = c * n /\ r > 0)

\* variance < c
VarianceBelow(rr, c) ==
    LET n == Len(rr) IN VarNum(rr) \div (n * n) < c * n

\* "current_bpm and current_bpm < BRADY_BPM" without the test for 0
BradyCondition_unguarded(bpm) == bpm < BRADY_BPM
\* "current_bpm and current_bpm < BRADY_BPM"
BradyCondition(bpm) == bpm # 0 /\ bpm < BRADY_BPM
\* "current_bpm and current_bpm > TACHY_BPM"
TachyCondition(bpm) == bpm # 0 /\ bpm > TACHY_BPM
\* "current_bpm and current_bpm > VTACH_BPM"
VTachCondition(bpm) == bpm # 0 /\ bpm > VTACH_BPM

AsystoleCondition(now, lst) == now - lst > ASYSTOLE_MS

\* the three events the Myocarditis rule counts, read from the dict d
myocarditis_score(d) ==
    (IF "Tachycardia" \in Keys(d) THEN 1 ELSE 0)
  + (IF "Irregular Rhythm" \in Keys(d) THEN 1 ELSE 0)
  + (IF "Early Repolarization / ST Elevation (possible)" \in Keys(d)
     THEN 1 ELSE 0)

\* the rules of detect_events up to the Myocarditis heuristic
detect_rules(es0, v, now, bpm, lst, rr, qrs, qt) ==
    LET n == Len(rr)
        S == SumSeq(rr)
        \* ---- RATE BASED ----
        e1 == set_event(es0, "Bradycardia", BradyCondition(bpm))
        e2 == set_event(e1, "Tachycardia", TachyCondition(bpm))
        e3 == set_event(e2, "Ventricular Tachycardia", VTachCondition(bpm))
        \* ---- ASYSTOLE ----
        e4 == set_event(e3, "Asystole / Flatline", AsystoleCondition(now, lst))
        \* ---- RR VARIABILITY ----
        e5 == IF n > 6
              THEN set_event(e4, "Irregular Rhythm",
                             VarianceAbove(rr, VAR_IRREGULAR))
              ELSE e4
        e6 == IF n > 6
              THEN set_event(e5, "Sinus Node Dysfunction",
                             /\ VarianceAbove(rr, VAR_SINUS)
                             /\ S > RR_MEAN_SINUS * n)
              ELSE e5
        e7 == IF n > 6
              THEN set_event(e6, "First-Degree AV Block (possible)",
                             /\ S > RR_MEAN_AVBLOCK * n
                             /\ VarianceBelow(rr, VAR_AVBLOCK))
              ELSE e6
        \* ---- QRS MORPHOLOGY ----
        e8 == IF Len(qrs) > 5
              THEN set_event(e7, "Bundle Branch Block (possible)",
                             SumSeq(qrs) > QRS_BBB * Len(qrs))
              ELSE e7
        \* ---- QT HEURISTICS ----
        e9 == IF Len(qt) > 5
              THEN set_event(e8, "Long QT (possible)",
                             SumSeq(qt) > QT_LONG * Len(qt))
              ELSE e8
        e10 == IF Len(qt) > 5
               THEN set_event(e9, "Short QT (possible)",
                              SumSeq(qt) < QT_SHORT * Len(qt))
               ELSE e9
        \* ---- ST / REPOLARIZATION ----
    IN  set_event(e10, "Early Repolarization / ST Elevation (possible)",
                  ST_DEN * v > ST_NUM * R_THRESHOLD /\ bpm < ST_BPM)

\* a Myocarditis rule that counts the events as the previous cycle left them
detect_events_lagging(es0, v, now, bpm, lst, rr, qrs, qt) ==
    LET e11 == detect_rules(es0, v, now, bpm, lst, rr, qrs, qt)
    IN  set_event(e11, "Myocarditis (possible)",
                  myocarditis_score(es0.state) >= 2)

detect_events(es0, v, now, bpm, lst, rr, qrs, qt) ==
    LET e11 == detect_rules(es0, v, now, bpm, lst, rr, qrs, qt)
    \* ---- MYOCARDITIS HEURISTIC ----
    IN  set_event(e11, "Myocarditis (possible)",
                  myocarditis_score(e11.state) >= 2)

(* ------------------------------ ECG LOOP ------------------------------ *)
\* a refractory guard that lets an interval of exactly 0.25 s through
AcceptRR_inclusive(rr) == rr >= MIN_RR_MS
\* "if rr > 0.25"
AcceptRR(rr) == rr > MIN_RR_MS

\* round(60 / rr) in place of int(60 / rr)
BpmOf_rounded(rr) == (MS_PER_MINUTE + (rr \div 2)) \div rr
\* "bpm = 60 / rr; current_bpm = int(bpm)"
BpmOf(rr) == MS_PER_MINUTE \div rr

\* a peak that does not move last_signal_time
signal_time_stale(v, now, lst) == lst
\* "last_signal_time = t" under "if val > R_THRESHOLD"
signal_time_after(v, now, lst) == IF v > R_THRESHOLD THEN now ELSE lst
\* "if val > R_THRESHOLD: if last_peak_time: rr = ...; if rr > 0.25:"
PeakAccepted(v, now, lpt) ==
    v > R_THRESHOLD /\ lpt # 0 /\ AcceptRR(now - lpt)

\* "last_peak_time = t" moved under "if rr > 0.25"
peak_time_accepted_only(v, now, lpt) ==
    IF v > R_THRESHOLD /\ (lpt = 0 \/ AcceptRR(now - lpt)) THEN now ELSE lpt
\* "last_peak_time = t" moved out of "if val > R_THRESHOLD"
peak_time_every_sample(v, now, lpt) == now
\* "last_peak_time = t" under "if val > R_THRESHOLD"
peak_time_after(v, now, lpt) == IF v > R_THRESHOLD THEN now ELSE lpt

\* "with RESET_LOCK:" entered
ecg_loop_acquire ==
    /\ loop_pc = "acquire"
    /\ RESET_LOCK = "free"
    /\ RESET_LOCK' = "loop"
    /\ loop_pc' = "read"
    /\ UNCHANGED <<session, val, t, clock, cycles, data_vars, reset_pc,
                   report_vars, fresh_reset, history_vars>>

\* val = chan.value; t = time.time(); ecg_data.append(val)
ecg_loop_read(v, d) ==
    /\ loop_pc = "read"
    /\ val' = v
    /\ clock' = clock + d
    /\ t' = clock + d
    /\ ecg_data' = Append(ecg_data, v)
    /\ cycles' = cycles + 1
    /\ fresh_reset' = FALSE
    /\ loop_pc' = "stamp"
    /\ UNCHANGED <<timestamps, bpm_history, bpm_timestamps, rr_intervals,
                   qrs_widths, qt_intervals, event_state, event_counts,
                   event_timeline, current_bpm, last_peak_time,
                   last_signal_time, RESET_LOCK, data_vars, reset_pc,
                   report_vars, history_vars>>

\* timestamps.append(t)
ecg_loop_stamp ==
    /\ loop_pc = "stamp"
    /\ timestamps' = Append(timestamps, t)
    /\ loop_pc' = "peak"
    /\ UNCHANGED <<ecg_data, bpm_history, bpm_timestamps, rr_intervals,
                   qrs_widths, qt_intervals, event_state, event_counts,
                   event_timeline, current_bpm, last_peak_time,
                   last_signal_time, RESET_LOCK, val, t, clock, cycles,
                   data_vars, reset_pc, report_vars, fresh_reset,
                   history_vars>>

\* -------- R-PEAK DETECTION --------
ecg_loop_peak ==
    /\ loop_pc = "peak"
    /\ LET rr == t - last_peak_time IN
       IF PeakAccepted(val, t, last_peak_time)
       THEN /\ rr_intervals' = DequeAppend(rr_intervals, rr, RR_MAXLEN)
            /\ current_bpm' = BpmOf(rr)
            /\ bpm_history' = Append(bpm_history, BpmOf(rr))
            /\ bpm_timestamps' = Append(bpm_timestamps, t)
            /\ qt_intervals' = DequeAppend(qt_intervals, rr * QT_RATIO,
                                           QT_MAXLEN)
            /\ qrs_widths' = DequeAppend(qrs_widths,
                                         QRS_BASE + Abs(val - R_THRESHOLD),
                                         QRS_MAXLEN)
            /\ bpm_recorded' = IF logging
                               THEN bpm_recorded \cup {<<t, BpmOf(rr)>>}
                               ELSE bpm_recorded
       ELSE /\ UNCHANGED <<rr_intervals, current_bpm, bpm_history,
                           bpm_timestamps, qt_intervals, qrs_widths,
                           bpm_recorded>>
    /\ last_peak_time' = peak_time_after(val, t, last_peak_time)
    /\ last_signal_time' = signal_time_after(val, t, last_signal_time)
    /\ loop_pc' = "detect"
    /\ UNCHANGED <<ecg_data, timestamps, event_state, event_counts,
                   event_timeline, RESET_LOCK, val, t, clock, cycles,
                   data_vars, reset_pc, report_vars, fresh_reset, logging,
                   recorded>>

\* detect_events(val, t)
ecg_loop_detect ==
    /\ loop_pc = "detect"
    /\ LET es == detect_events([state |-> event_state, counts |-> event_counts],
                               val, t, current_bpm, last_signal_time,
                               rr_intervals, qrs_widths, qt_intervals)
       IN  event_state' = es.state /\ event_counts' = es.counts
    /\ loop_pc' = "store"
    /\ UNCHANGED <<ecg_data, timestamps, bpm_history, bpm_timestamps,
                   rr_intervals, qrs_widths, qt_intervals, event_timeline,
                   current_bpm, last_peak_time, last_signal_time, RESET_LOCK,
                   val, t, clock, cycles, data_vars, reset_pc, report_vars,
                   fresh_reset, history_vars>>

\* event_timeline.append(",".join(active_cardiac_flags())); the with block
\* ends, then time.sleep(1 / SAMPLE_RATE); val and t are dead from here on
ecg_loop_store ==
    /\ loop_pc = "store"
    /\ event_timeline' = Append(event_timeline, active_cardiac_flags(event_state))
    /\ RESET_LOCK' = "free"
    /\ loop_pc' = "acquire"
    /\ val' = 0
    /\ t' = 0
    /\ recorded' = IF logging
                   THEN recorded \cup
                        {<<t, val, active_cardiac_flags(event_state)>>}
                   ELSE recorded
    /\ UNCHANGED <<ecg_data, timestamps, bpm_history, bpm_timestamps,
                   rr_intervals, qrs_widths, qt_intervals, event_state,
                   event_counts, current_bpm, last_peak_time,
                   last_signal_time, clock, cycles, data_vars, reset_pc,
                   report_vars, fresh_reset, logging, bpm_recorded>>

(* ------------------------------- /data -------------------------------- *)
\* sum(ecg_data[max(0, i-w):i+1]) / min(i+1, w), for the 0-based index i
smoothed_at(data, i, w) ==
    [num |-> SumSeq(Slice(data, Max(0, i - w), i + 1)), den |-> Min(i + 1, w)]

smooth(data, w) == [k \in 1..Len(data) |-> smoothed_at(data, k - 1, w)]

NoResponse == [ecg |-> <<>>, bpm |-> -1, bpm_history |-> <<>>, events |-> <<>>]

\* the handler without its "with RESET_LOCK:"
data_acquire_unlocked ==
    /\ data_pc = "acquire"
    /\ data_pc' = "smooth"
    /\ UNCHANGED <<session, RESET_LOCK, loop_vars, smoothed, response,
                   reset_pc, report_vars, fresh_reset, history_vars>>

\* "with RESET_LOCK:" entered
data_acquire ==
    /\ data_pc = "acquire"
    /\ RESET_LOCK = "free"
    /\ RESET_LOCK' = "data"
    /\ data_pc' = "smooth"
    /\ UNCHANGED <<session, loop_vars, smoothed, response, reset_pc,
                   report_vars, fresh_reset, history_vars>>

\* the loop that fills smoothed
data_smooth ==
    /\ data_pc = "smooth"
    /\ smoothed' = smooth(ecg_data, SMOOTH_W)
    /\ data_pc' = "jsonify"
    /\ UNCHANGED <<session, RESET_LOCK, loop_vars, response, reset_pc,
                   report_vars, fresh_reset, history_vars>>

\* a handler that drains the sample buffer it has just read
data_jsonify_draining ==
    /\ data_pc = "jsonify"
    /\ response' = [ecg |-> LastN(smoothed, ECG_TAIL),
                    bpm |-> current_bpm,
                    bpm_history |-> LastN(bpm_history, BPM_TAIL),
                    events |-> event_state]
    /\ ecg_data' = <<>>
    /\ data_pc' = "return"
    /\ UNCHANGED <<timestamps, bpm_history, bpm_timestamps, rr_intervals,
                   qrs_widths, qt_intervals, event_state, event_counts,
                   event_timeline, current_bpm, last_peak_time,
                   last_signal_time, RESET_LOCK, loop_vars, smoothed,
                   reset_pc, report_vars, fresh_reset, history_vars>>

\* jsonify({...}), evaluated inside the with block
data_jsonify ==
    /\ data_pc = "jsonify"
    /\ response' = [ecg |-> LastN(smoothed, ECG_TAIL),
                    bpm |-> current_bpm,
                    bpm_history |-> LastN(bpm_history, BPM_TAIL),
                    events |-> event_state]
    /\ data_pc' = "return"
    /\ UNCHANGED <<session, RESET_LOCK, loop_vars, smoothed, reset_pc,
                   report_vars, fresh_reset, history_vars>>

\* the with block ends and the response leaves the handler
data_return ==
    /\ data_pc = "return"
    /\ RESET_LOCK' = "free"
    /\ smoothed' = <<>>
    /\ response' = NoResponse
    /\ data_pc' = "acquire"
    /\ UNCHANGED <<session, loop_vars, reset_pc, report_vars, fresh_reset,
                   history_vars>>

(* ------------------------------- /reset ------------------------------- *)
\* "with RESET_LOCK:" entered
reset_acquire ==
    /\ reset_pc = "acquire"
    /\ RESET_LOCK = "free"
    /\ RESET_LOCK' = "reset"
    /\ reset_pc' = "clear"
    /\ UNCHANGED <<session, loop_vars, data_vars, report_vars, fresh_reset,
                   history_vars>>

\* a reset that forgets event_timeline.clear()
reset_clear_keeping_timeline ==
    /\ reset_pc = "clear"
    /\ ecg_data' = <<>>
    /\ timestamps' = <<>>
    /\ bpm_history' = <<>>
    /\ bpm_timestamps' = <<>>
    /\ rr_intervals' = <<>>
    /\ qrs_widths' = <<>>
    /\ qt_intervals' = <<>>
    /\ event_state' = <<>>
    /\ event_counts' = NoCounts
    /\ fresh_reset' = TRUE
    /\ reset_pc' = "return"
    /\ UNCHANGED <<event_timeline, current_bpm, last_peak_time,
                   last_signal_time, RESET_LOCK, loop_vars, data_vars,
                   report_vars, history_vars>>

\* a reset that forgets event_state.clear()
reset_clear_keeping_events ==
    /\ reset_pc = "clear"
    /\ ecg_data' = <<>>
    /\ timestamps' = <<>>
    /\ bpm_history' = <<>>
    /\ bpm_timestamps' = <<>>
    /\ rr_intervals' = <<>>
    /\ qrs_widths' = <<>>
    /\ qt_intervals' = <<>>
    /\ event_counts' = NoCounts
    /\ event_timeline' = <<>>
    /\ fresh_reset' = TRUE
    /\ reset_pc' = "return"
    /\ UNCHANGED <<event_state, current_bpm, last_peak_time, last_signal_time,
                   RESET_LOCK, loop_vars, data_vars, report_vars,
                   history_vars>>

\* the ten clear() calls
reset_clear ==
    /\ reset_pc = "clear"
    /\ ecg_data' = <<>>
    /\ timestamps' = <<>>
    /\ bpm_history' = <<>>
    /\ bpm_timestamps' = <<>>
    /\ rr_intervals' = <<>>
    /\ qrs_widths' = <<>>
    /\ qt_intervals' = <<>>
    /\ event_state' = <<>>
    /\ event_counts' = NoCounts
    /\ event_timeline' = <<>>
    /\ fresh_reset' = TRUE
    /\ reset_pc' = "return"
    /\ UNCHANGED <<current_bpm, last_peak_time, last_signal_time, RESET_LOCK,
                   loop_vars, data_vars, report_vars, history_vars>>

\* a handler that returns without giving the lock back
reset_return_holding ==
    /\ reset_pc = "return"
    /\ reset_pc' = "acquire"
    /\ UNCHANGED <<session, RESET_LOCK, loop_vars, data_vars, report_vars,
                   fresh_reset, history_vars>>

\* the with block ends; return ("", 204)
reset_return ==
    /\ reset_pc = "return"
    /\ RESET_LOCK' = "free"
    /\ reset_pc' = "acquire"
    /\ UNCHANGED <<session, loop_vars, data_vars, report_vars, fresh_reset,
                   history_vars>>

(* ------------------------------- /report ------------------------------ *)
\* A list iterator is the 0-based index of the element it yields next; zip
\* asks its iterators in turn and stops at the first that is exhausted.
\* report() holds no lock, so each element it fetches is a step of its own.
NoRow == 0

\* zip(timestamps, ecg_data, event_timeline) is created
report_start ==
    /\ report_pc = "idle"
    /\ it_timestamps' = 0
    /\ it_ecg_data' = 0
    /\ it_event_timeline' = 0
    /\ ecg_rows' = <<>>
    /\ bpm_rows' = <<>>
    /\ report_pc' = "timestamp"
    /\ UNCHANGED <<session, RESET_LOCK, loop_vars, data_vars, reset_pc, row_t,
                   row_v, it_bpm_timestamps, it_bpm_history, row_bt,
                   fresh_reset, history_vars>>

\* next(iter(timestamps))
report_next_timestamp ==
    /\ report_pc = "timestamp"
    /\ IF it_timestamps < Len(timestamps)
       THEN /\ row_t' = timestamps[it_timestamps + 1]
            /\ it_timestamps' = it_timestamps + 1
            /\ report_pc' = "value"
       ELSE /\ report_pc' = "bpm_start"
            /\ UNCHANGED <<row_t, it_timestamps>>
    /\ UNCHANGED <<session, RESET_LOCK, loop_vars, data_vars, reset_pc,
                   it_ecg_data, it_event_timeline, row_v, ecg_rows,
                   it_bpm_timestamps, it_bpm_history, row_bt, bpm_rows,
                   fresh_reset, history_vars>>

\* next(iter(ecg_data))
report_next_value ==
    /\ report_pc = "value"
    /\ IF it_ecg_data < Len(ecg_data)
       THEN /\ row_v' = ecg_data[it_ecg_data + 1]
            /\ it_ecg_data' = it_ecg_data + 1
            /\ report_pc' = "flags"
            /\ UNCHANGED row_t
       ELSE /\ report_pc' = "bpm_start"
            /\ row_t' = NoRow
            /\ UNCHANGED <<row_v, it_ecg_data>>
    /\ UNCHANGED <<session, RESET_LOCK, loop_vars, data_vars, reset_pc,
                   it_timestamps, it_event_timeline, ecg_rows,
                   it_bpm_timestamps, it_bpm_history, row_bt, bpm_rows,
                   fresh_reset, history_vars>>

\* next(iter(event_timeline)); writer.writerow([t, v, f])
report_next_flags ==
    /\ report_pc = "flags"
    /\ IF it_event_timeline < Len(event_timeline)
       THEN /\ ecg_rows' = Append(ecg_rows,
                    <<row_t, row_v, event_timeline[it_event_timeline + 1]>>)
            /\ it_event_timeline' = it_event_timeline + 1
            /\ report_pc' = "timestamp"
       ELSE /\ report_pc' = "bpm_start"
            /\ UNCHANGED <<ecg_rows, it_event_timeline>>
    /\ row_t' = NoRow
    /\ row_v' = NoRow
    /\ UNCHANGED <<session, RESET_LOCK, loop_vars, data_vars, reset_pc,
                   it_timestamps, it_ecg_data, it_bpm_timestamps,
                   it_bpm_history, row_bt, bpm_rows, fresh_reset,
                   history_vars>>

\* zip(bpm_timestamps, bpm_history) is created
report_bpm_start ==
    /\ report_pc = "bpm_start"
    /\ it_bpm_timestamps' = 0
    /\ it_bpm_history' = 0
    /\ report_pc' = "bpm_timestamp"
    /\ UNCHANGED <<session, RESET_LOCK, loop_vars, data_vars, reset_pc,
                   it_timestamps, it_ecg_data, it_event_timeline, row_t, row_v,
                   ecg_rows, row_bt, bpm_rows, fresh_reset, history_vars>>

\* next(iter(bpm_timestamps))
report_next_bpm_timestamp ==
    /\ report_pc = "bpm_timestamp"
    /\ IF it_bpm_timestamps < Len(bpm_timestamps)
       THEN /\ row_bt' = bpm_timestamps[it_bpm_timestamps + 1]
            /\ it_bpm_timestamps' = it_bpm_timestamps + 1
            /\ report_pc' = "bpm"
       ELSE /\ report_pc' = "render"
            /\ UNCHANGED <<row_bt, it_bpm_timestamps>>
    /\ UNCHANGED <<session, RESET_LOCK, loop_vars, data_vars, reset_pc,
                   it_timestamps, it_ecg_data, it_event_timeline, row_t, row_v,
                   ecg_rows, it_bpm_history, bpm_rows, fresh_reset,
                   history_vars>>

\* next(iter(bpm_history)); writer.writerow([t, b])
report_next_bpm ==
    /\ report_pc = "bpm"
    /\ IF it_bpm_history < Len(bpm_history)
       THEN /\ bpm_rows' = Append(bpm_rows,
                                  <<row_bt, bpm_history[it_bpm_history + 1]>>)
            /\ it_bpm_history' = it_bpm_history + 1
            /\ report_pc' = "bpm_timestamp"
       ELSE /\ report_pc' = "render"
            /\ UNCHANGED <<bpm_rows, it_bpm_history>>
    /\ row_bt' = NoRow
    /\ UNCHANGED <<session, RESET_LOCK, loop_vars, data_vars, reset_pc,
                   it_timestamps, it_ecg_data, it_event_timeline, row_t, row_v,
                   ecg_rows, it_bpm_timestamps, fresh_reset, history_vars>>

\* the snapshots, the PDF and the zip are rendered and sent: nothing of the
\* session is written, and the rows leave the handler
report_render ==
    /\ report_pc = "render"
    /\ ecg_rows' = <<>>
    /\ bpm_rows' = <<>>
    /\ it_timestamps' = 0
    /\ it_ecg_data' = 0
    /\ it_event_timeline' = 0
    /\ it_bpm_timestamps' = 0
    /\ it_bpm_history' = 0
    /\ report_pc' = "idle"
    /\ UNCHANGED <<session, RESET_LOCK, loop_vars, data_vars, reset_pc, row_t,
                   row_v, row_bt, fresh_reset, history_vars>>

(* --------------------------- specifications --------------------------- *)
InitWith(log) ==
    /\ ecg_data = <<>>
    /\ timestamps = <<>>
    /\ bpm_history = <<>>
    /\ bpm_timestamps = <<>>
    /\ rr_intervals = <<>>
    /\ qrs_widths = <<>>
    /\ qt_intervals = <<>>
    /\ event_state = <<>>
    /\ event_counts = NoCounts
    /\ event_timeline = <<>>
    /\ current_bpm = 0
    /\ last_peak_time = 0
    /\ last_signal_time = ImportTime
    /\ RESET_LOCK = "free"
    /\ clock = ImportTime
    /\ loop_pc = "acquire"
    /\ val = 0
    /\ t = 0
    /\ data_pc = "acquire"
    /\ smoothed = <<>>
    /\ response = NoResponse
    /\ reset_pc = "acquire"
    /\ report_pc = "idle"
    /\ it_timestamps = 0
    /\ it_ecg_data = 0
    /\ it_event_timeline = 0
    /\ row_t = NoRow
    /\ row_v = NoRow
    /\ ecg_rows = <<>>
    /\ it_bpm_timestamps = 0
    /\ it_bpm_history = 0
    /\ row_bt = NoRow
    /\ bpm_rows = <<>>
    /\ cycles = 0
    /\ fresh_reset = FALSE
    /\ logging = log
    /\ recorded = {}
    /\ bpm_recorded = {}

Init == InitWith(FALSE)

\* one reading of the channel and the clock
Sample ==
    /\ cycles < MaxCycles
    /\ \E v \in Values, d \in Deltas : ecg_loop_read(v, d)

Next ==
    \/ ecg_loop_acquire
    \/ Sample
    \/ ecg_loop_stamp
    \/ ecg_loop_peak
    \/ ecg_loop_detect
    \/ ecg_loop_store
    \/ data_acquire
    \/ data_smooth
    \/ data_jsonify
    \/ data_return
    \/ reset_acquire
    \/ reset_clear
    \/ reset_return

Spec == Init /\ [][Next]_vars

\* the smoothing specification: readings far below the threshold, one
\* sample period apart, and the live query
SmoothSample ==
    /\ cycles < MaxSmoothCycles
    /\ \E v \in SmoothValues : ecg_loop_read(v, SAMPLE_PERIOD_MS)

NextSmooth ==
    \/ ecg_loop_acquire
    \/ SmoothSample
    \/ ecg_loop_stamp
    \/ ecg_loop_peak
    \/ ecg_loop_detect
    \/ ecg_loop_store
    \/ data_acquire
    \/ data_smooth
    \/ data_jsonify
    \/ data_return

SpecSmooth == Init /\ [][NextSmooth]_vars

\* the export specification: the loop, /reset and /report, with the write
\* cycles logged in recorded and bpm_recorded
InitReport == InitWith(TRUE)

ReportSample ==
    /\ cycles < MaxReportCycles
    /\ \E v \in ReportValues, d \in ReportDeltas : ecg_loop_read(v, d)

NextReport ==
    \/ ecg_loop_acquire
    \/ ReportSample
    \/ ecg_loop_stamp
    \/ ecg_loop_peak
    \/ ecg_loop_detect
    \/ ecg_loop_store
    \/ reset_acquire
    \/ reset_clear
    \/ reset_return
    \/ report_start
    \/ report_next_timestamp
    \/ report_next_value
    \/ report_next_flags
    \/ report_bpm_start
    \/ report_next_bpm_timestamp
    \/ report_next_bpm
    \/ report_render

SpecReport == InitReport /\ [][NextReport]_vars

\* the rhythm specification: the loop and /reset, fed a train of peaks of
\* which at most MaxOdd per session differ from the regular beat
OddCount(data, ts) ==
    Cardinality({i \in 1..Len(data) :
                    \/ data[i] # RegularBeat[1]
                    \/ (i > 1 /\ ts[i] - ts[i - 1] # RegularBeat[2])})

RhythmSample ==
    /\ loop_pc = "read"
    /\ cycles < MaxRhythmCycles
    /\ \E b \in RhythmBeats :
          /\ OddCount(ecg_data, timestamps)
                 + (IF b \in OddBeats THEN 1 ELSE 0) <= MaxOdd
          /\ ecg_loop_read(b[1], b[2])

NextRhythm ==
    \/ ecg_loop_acquire
    \/ RhythmSample
    \/ ecg_loop_stamp
    \/ ecg_loop_peak
    \/ ecg_loop_detect
    \/ ecg_loop_store
    \/ reset_acquire
    \/ reset_clear
    \/ reset_return

SpecRhythm == Init /\ [][NextRhythm]_vars

\* the scheduling specification: the loop, /data and /reset for ever.  The
\* first MaxLiveCycles write cycles are the code's; of every later one only
\* what it does to the lock is kept (it takes the lock, runs, gives it back),
\* since no step of the code waits on anything but the lock.
\* the window specification reads one fixed wave: the k-th sample is a
\* peak whose height and distance from the sample before grow with k, but
\* every eighth is a peak 250 ms after the last and every eighth falls
\* below the threshold, 4 ms after the last
WaveValue(k) == IF k % 8 = 5 THEN 100 ELSE 16000 + 10 * k
WaveDelta(k) ==
    IF k % 8 = 2 THEN MIN_RR_MS
    ELSE IF k % 8 = 5 THEN SAMPLE_PERIOD_MS
    ELSE 256 + k

WindowSample ==
    /\ cycles < MaxWindowCycles
    /\ ecg_loop_read(WaveValue(cycles), WaveDelta(cycles))

NextWindow ==
    \/ ecg_loop_acquire
    \/ WindowSample
    \/ ecg_loop_stamp
    \/ ecg_loop_peak
    \/ ecg_loop_detect
    \/ ecg_loop_store
    \/ reset_acquire
    \/ reset_clear
    \/ reset_return

SpecWindow == Init /\ [][NextWindow]_vars

\* the periodic specification reads one of these waves, <<gap, K>>: the
\* samples are gap milliseconds apart and every K-th exceeds the
\* threshold, so the period is K * gap; the gap tells the waves apart
PeriodicWaves ==
    {<<251, 1>>, <<63, 4>>, <<61, 5>>, <<125, 4>>, <<300, 2>>, <<502, 2>>,
     <<1000, 1>>}
WaveOf(now, k) == {w \in PeriodicWaves : k = 0 \/ w[1] * k = now - ImportTime}
PeriodicValue(w, k) == IF k % w[2] = w[2] - 1 THEN 16000 ELSE 100

PeriodicSample ==
    /\ cycles < MaxPeriodicCycles
    /\ \E w \in WaveOf(clock, cycles) :
          ecg_loop_read(PeriodicValue(w, cycles), w[1])

NextPeriodic ==
    \/ ecg_loop_acquire
    \/ PeriodicSample
    \/ ecg_loop_stamp
    \/ ecg_loop_peak
    \/ ecg_loop_detect
    \/ ecg_loop_store
    \/ reset_acquire
    \/ reset_clear
    \/ reset_return

SpecPeriodic == Init /\ [][NextPeriodic]_vars

\* the rate specification: gaps on both sides of 0.25 s and of the
\* intervals of 150, 100, 50 and 1 beats per minute
RateValues == {100, 16000}
RateDeltas == {250, 251, 397, 400, 594, 600, 1200, 1201, 60001}

RateSample ==
    /\ cycles < MaxRateCycles
    /\ \E v \in RateValues, d \in RateDeltas : ecg_loop_read(v, d)

NextRate ==
    \/ ecg_loop_acquire
    \/ RateSample
    \/ ecg_loop_stamp
    \/ ecg_loop_peak
    \/ ecg_loop_detect
    \/ ecg_loop_store
    \/ reset_acquire
    \/ reset_clear
    \/ reset_return

SpecRate == Init /\ [][NextRate]_vars

LiveSample ==
    /\ cycles < MaxLiveCycles
    /\ \E v \in LiveValues, d \in LiveDeltas : ecg_loop_read(v, d)

ecg_loop_body_unrecorded ==
    /\ loop_pc = "read"
    /\ cycles >= MaxLiveCycles
    /\ loop_pc' = "unrecorded"
    /\ UNCHANGED <<session, RESET_LOCK, val, t, clock, cycles, data_vars,
                   reset_pc, report_vars, fresh_reset, history_vars>>

ecg_loop_release_unrecorded ==
    /\ loop_pc = "unrecorded"
    /\ RESET_LOCK' = "free"
    /\ loop_pc' = "acquire"
    /\ UNCHANGED <<session, val, t, clock, cycles, data_vars, reset_pc,
                   report_vars, fresh_reset, history_vars>>

LoopBody ==
    \/ LiveSample
    \/ ecg_loop_stamp
    \/ ecg_loop_peak
    \/ ecg_loop_detect
    \/ ecg_loop_store
    \/ ecg_loop_body_unrecorded
    \/ ecg_loop_release_unrecorded

DataBody == data_smooth \/ data_jsonify \/ data_return

ResetBody == reset_clear \/ reset_return

NextLive ==
    \/ ecg_loop_acquire
    \/ LoopBody
    \/ data_acquire
    \/ DataBody
    \/ reset_acquire
    \/ ResetBody

\* a thread that holds the lock keeps running; a thread that waits for a
\* lock that is free again and again gets it
SpecLive ==
    /\ Init
    /\ [][NextLive]_vars
    /\ WF_vars(LoopBody)
    /\ WF_vars(DataBody)
    /\ WF_vars(ResetBody)
    /\ SF_vars(ecg_loop_acquire)
    /\ SF_vars(data_acquire)
    /\ SF_vars(reset_acquire)

(* ------------------------------- claims ------------------------------- *)
Active(e) == e \in Keys(event_state)
CrossCount(data) == Cardinality({i \in 1..Len(data) : data[i] > R_THRESHOLD})
InWriteCycle == loop_pc \in {"read", "stamp", "peak", "detect", "store"}
InLiveQuery == data_pc \in {"smooth", "jsonify", "return"}
InReset == reset_pc \in {"clear", "return"}

\* C1: an event's occurrence count grows only in a step that takes the event
\* from inactive to active; while it stays active the count stays the same.
C1_CountedOnActivationOnly ==
    [][\A e \in CARDIAC_EVENTS :
          event_counts'[e] > event_counts[e]
              => (~Active(e) /\ e \in Keys(event_state'))]_vars

\* C2: a live query answered after a reset, before any further sample is
\* read, returns empty histories, a BPM of zero and no active event, and all
\* occurrence counts are zero.
C2_QueryAfterResetIsEmpty ==
    (data_pc = "return" /\ fresh_reset)
        => /\ response.ecg = <<>>
           /\ response.bpm_history = <<>>
           /\ response.bpm = 0
           /\ response.events = <<>>
           /\ event_counts = NoCounts

\* C3: nothing survives a reset: as in a fresh session, the first sample
\* above the threshold yields no RR interval and no BPM sample, and while no
\* BPM sample exists no rate event is active after an evaluation.
C3_NothingSurvivesReset ==
    /\ CrossCount(ecg_data) <= 1 => (rr_intervals = <<>> /\ bpm_history = <<>>)
    /\ (loop_pc = "store" /\ bpm_history = <<>>)
            => /\ ~Active("Bradycardia")
               /\ ~Active("Tachycardia")
               /\ ~Active("Ventricular Tachycardia")

\* C4: every RR interval in the window is longer than 0.25 s, and the peak
\* step adds an RR interval or a BPM sample only for a sample above the
\* threshold that follows the previous peak by more than 0.25 s.
C4_RefractoryGuard ==
    [][/\ \A i \in 1..Len(rr_intervals') : rr_intervals'[i] > MIN_RR_MS
       /\ (loop_pc = "peak" /\ (rr_intervals' # rr_intervals
                                    \/ bpm_history' # bpm_history
                                    \/ bpm_timestamps' # bpm_timestamps))
              => /\ val > R_THRESHOLD
                 /\ last_peak_time # 0
                 /\ t - last_peak_time > MIN_RR_MS
                 /\ rr_intervals' # <<>>
                 /\ rr_intervals'[Len(rr_intervals')] = t - last_peak_time
                 /\ Len(bpm_history') = Len(bpm_history) + 1]_vars

\* C4 witness: three peaks; the second follows the first by exactly 0.25 s
\* and is rejected, the third follows by 0.251 s and is accepted.
C4_Witness ==
    /\ loop_pc = "acquire"
    /\ Len(ecg_data) = 3 /\ Len(timestamps) = 3
    /\ \A i \in 1..3 : ecg_data[i] > R_THRESHOLD
    /\ timestamps[2] - timestamps[1] = MIN_RR_MS
    /\ timestamps[3] - timestamps[2] = MIN_RR_MS + 1
    /\ rr_intervals = <<MIN_RR_MS + 1>>
    /\ Len(bpm_history) = 1

\* C5: after a processed sample, if the RR window is not empty then
\* current_bpm is the floor of 60 / (the last RR interval accepted) and the
\* BPM history ends with that value.
C5_BpmIsFloorOfLastRR ==
    (loop_pc = "acquire" /\ rr_intervals # <<>>)
        => LET rr == rr_intervals[Len(rr_intervals)] IN
           /\ current_bpm * rr <= MS_PER_MINUTE
           /\ MS_PER_MINUTE < (current_bpm + 1) * rr
           /\ bpm_history # <<>>
           /\ bpm_history[Len(bpm_history)] = current_bpm

\* C5 witness: two accepted intervals of different length, the last one 3.6 s
C5_Witness ==
    /\ loop_pc = "acquire"
    /\ Len(rr_intervals) = 2
    /\ rr_intervals[1] = 251
    /\ rr_intervals[2] = 3600
    /\ current_bpm = 16
    /\ bpm_history = <<239, 16>>

\* C6: right after an evaluation Asystole / Flatline is active exactly when
\* now - last_signal_time exceeds 3.5 s, and the flags stored for a sample
\* above the threshold never contain it.
C6_AsystoleIff ==
    /\ loop_pc = "store"
            => (Active("Asystole / Flatline")
                    <=> t - last_signal_time > ASYSTOLE_MS)
    /\ \A i \in 1..Len(event_timeline) :
            (i <= Len(ecg_data) /\ ecg_data[i] > R_THRESHOLD)
                => "Asystole / Flatline" \notin Keys(event_timeline[i])

\* C6 witness: Asystole is in the flags of one sample and gone from the flags
\* of the next, which is above the threshold.
C6_Witness ==
    /\ loop_pc = "acquire"
    /\ Len(ecg_data) = 2 /\ Len(event_timeline) = 2
    /\ "Asystole / Flatline" \in Keys(event_timeline[1])
    /\ ecg_data[2] > R_THRESHOLD
    /\ "Asystole / Flatline" \notin Keys(event_timeline[2])
    /\ ~Active("Asystole / Flatline")

\* C7: every smoothed value the live query returns is the mean of the
\* min(i+1, 5) samples that end at its index.
C7_SmoothedIsTrailingMean ==
    data_pc = "return"
        => \A k \in 1..Len(response.ecg) :
              LET i == Len(ecg_data) - Len(response.ecg) + k
                  m == Min(i, SMOOTH_W)
              IN  response.ecg[k].num * m
                      = response.ecg[k].den
                            * SumSeq(SubSeq(ecg_data, i - m + 1, i))

\* C8: a write cycle, a reset and a live query never overlap, and whoever is
\* inside holds the lock.
C8_MutualExclusion ==
    /\ ~(InWriteCycle /\ InLiveQuery)
    /\ ~(InWriteCycle /\ InReset)
    /\ ~(InLiveQuery /\ InReset)
    /\ InWriteCycle => RESET_LOCK = "loop"
    /\ InLiveQuery => RESET_LOCK = "data"
    /\ InReset => RESET_LOCK = "reset"

\* C8 witness: the loop is in the middle of a write cycle after an earlier
\* reset and an earlier sample, and neither handler is inside.
C8_Witness ==
    /\ loop_pc = "detect"
    /\ Len(ecg_data) = 2
    /\ cycles > Len(ecg_data)
    /\ data_pc = "acquire"
    /\ reset_pc = "acquire"

C10_LiveQueryReadOnly ==
    [][data_pc' # data_pc => UNCHANGED session]_vars

\* C10 witness: the live query has built a response from a session that
\* holds samples, a BPM and an active event.
C10_Witness ==
    /\ data_pc = "return"
    /\ Len(response.ecg) = Len(ecg_data)
    /\ Len(ecg_data) >= 2
    /\ response.bpm > 0
    /\ response.bpm_history # <<>>
    /\ response.events # <<>>

\* C11: the lock is always given back, every waiting live query and reset
\* gets the lock and returns, and the loop takes the lock again and again.
C11_NoIndefiniteBlocking ==
    /\ (RESET_LOCK # "free") ~> (RESET_LOCK = "free")
    /\ (data_pc = "acquire") ~> (data_pc = "return")
    /\ (data_pc = "return") ~> (data_pc = "acquire")
    /\ (reset_pc = "acquire") ~> (reset_pc = "return")
    /\ (reset_pc = "return") ~> (reset_pc = "acquire")
    /\ []<>(RESET_LOCK = "loop")
    /\ []<>(loop_pc = "acquire")

\* C11 witness: a live query is about to return after a reset that followed
\* the recorded write cycles, while the loop waits for the lock.
C11_Witness ==
    /\ data_pc = "return"
    /\ fresh_reset
    /\ cycles = MaxLiveCycles
    /\ loop_pc = "acquire"
    /\ reset_pc = "acquire"

MyocarditisInputs ==
    {"Tachycardia", "Irregular Rhythm",
     "Early Repolarization / ST Elevation (possible)"}

RECURSIVE SumSquares(_)
SumSquares(q) ==
    IF q = <<>> THEN 0 ELSE Head(q) * Head(q) + SumSquares(Tail(q))

\* C12: after an evaluation, and in every stored flag snapshot, Myocarditis
\* is active exactly when at least two of Tachycardia, Irregular Rhythm
\* and Early Repolarization are active in that same set.
C12_CompositeSameCycle ==
    /\ loop_pc = "store"
          => (Active("Myocarditis (possible)")
                <=> Cardinality({e \in MyocarditisInputs : Active(e)}) >= 2)
    /\ \A i \in 1..Len(event_timeline) :
          "Myocarditis (possible)" \in Keys(event_timeline[i])
             <=> Cardinality(MyocarditisInputs \cap Keys(event_timeline[i])) >= 2

\* C12 witness: Irregular Rhythm and Myocarditis become active in one and
\* the same evaluation: neither is in the flags of the sample before.
C12_Witness ==
    /\ loop_pc = "store"
    /\ event_timeline # <<>>
    /\ Active("Myocarditis (possible)")
    /\ Active("Irregular Rhythm")
    /\ Active("Early Repolarization / ST Elevation (possible)")
    /\ "Irregular Rhythm" \notin Keys(event_timeline[Len(event_timeline)])
    /\ "Myocarditis (possible)" \notin Keys(event_timeline[Len(event_timeline)])

\* C13: with 6 or fewer RR intervals in the window Irregular Rhythm, Sinus
\* Node Dysfunction and First-Degree AV Block are inactive; with 5 or fewer
\* QRS widths Bundle Branch Block is; with 5 or fewer QT values Long QT and
\* Short QT are.
C13_UndefinedFeatureInactive ==
    /\ Len(rr_intervals) <= 6
          => /\ ~Active("Irregular Rhythm")
             /\ ~Active("Sinus Node Dysfunction")
             /\ ~Active("First-Degree AV Block (possible)")
    /\ Len(qrs_widths) <= 5 => ~Active("Bundle Branch Block (possible)")
    /\ Len(qt_intervals) <= 5
          => /\ ~Active("Long QT (possible)")
             /\ ~Active("Short QT (possible)")

\* C13 witness: an evaluation has run on a short window in a session that
\* follows a reset of a session in which seven intervals were accepted.
C13_Witness ==
    /\ loop_pc = "store"
    /\ cycles >= Len(ecg_data) + 8
    /\ Len(rr_intervals) = 1
    /\ Len(qt_intervals) = 1
    /\ ~Active("Irregular Rhythm")
    /\ ~Active("Long QT (possible)")

\* C14: evaluating the rules once more on the state an evaluation has left,
\* with the same value, time, BPM and windows, leaves the same active set.
C14_EvaluateTwiceSameActiveSet ==
    loop_pc = "store"
        => LET again == detect_events(
                            [state |-> event_state, counts |-> event_counts],
                            val, t, current_bpm, last_signal_time,
                            rr_intervals, qrs_widths, qt_intervals)
           IN  Keys(again.state) = Keys(event_state)

\* C14 witness: an evaluation that has left Tachycardia, Irregular Rhythm
\* and the composite Myocarditis active.
C14_Witness ==
    /\ loop_pc = "store"
    /\ Active("Tachycardia")
    /\ Active("Irregular Rhythm")
    /\ Active("Myocarditis (possible)")
    /\ ~Active("Early Repolarization / ST Elevation (possible)")

\* C17: with more than six intervals in the window, Irregular Rhythm is
\* active after an evaluation exactly when the population variance of the
\* window, sum(r^2)/n - (sum(r)/n)^2, exceeds 0.02 s^2; seven intervals of
\* 1.0 s followed by one of 1.3 s leave it inactive.
C17_IrregularIffVariance ==
    (loop_pc = "store" /\ Len(rr_intervals) > 6)
        => LET n == Len(rr_intervals)
               S == SumSeq(rr_intervals)
           IN  /\ Active("Irregular Rhythm")
                     <=> n * SumSquares(rr_intervals) - S * S
                            > VAR_IRREGULAR * n * n
               /\ rr_intervals
                     = <<1000, 1000, 1000, 1000, 1000, 1000, 1000, 1300>>
                     => ~Active("Irregular Rhythm")

\* C17 witness: the window of the example, evaluated
C17_Witness ==
    /\ loop_pc = "store"
    /\ rr_intervals = <<1000, 1000, 1000, 1000, 1000, 1000, 1000, 1300>>
    /\ ~Active("Irregular Rhythm")

\* a window whose variance exceeds the threshold, evaluated
C17_WitnessActive ==
    /\ loop_pc = "store"
    /\ Len(rr_intervals) = 7
    /\ Active("Irregular Rhythm")

\* C15: in the peak step, a crossing that follows the previous crossing by
\* 0.25 s or less emits no RR, QT or QRS value and no BPM sample, and
\* sets last_peak_time and last_signal_time to the sample's timestamp; a
\* sample that does not exceed the threshold leaves both unchanged.
C15_RefractoryFrame ==
    [][(loop_pc = "peak" /\ loop_pc' = "detect")
          => /\ (val > R_THRESHOLD /\ last_peak_time # 0
                    /\ t - last_peak_time <= MIN_RR_MS)
                   => /\ UNCHANGED <<rr_intervals, qt_intervals, qrs_widths,
                                     bpm_history, bpm_timestamps, current_bpm>>
                      /\ last_peak_time' = t
                      /\ last_signal_time' = t
             /\ val <= R_THRESHOLD
                   => UNCHANGED <<last_peak_time, last_signal_time>>]_vars

\* C15 witness: the second of two crossings 0.25 s or less apart has been
\* through the peak step: nothing was emitted and both times are its own.
C15_Witness ==
    /\ loop_pc = "detect"
    /\ Len(timestamps) >= 2
    /\ val > R_THRESHOLD
    /\ ecg_data[Len(ecg_data) - 1] > R_THRESHOLD
    /\ t - timestamps[Len(timestamps) - 1] <= MIN_RR_MS
    /\ rr_intervals = <<>>
    /\ bpm_history = <<>>
    /\ last_peak_time = t
    /\ last_signal_time = t

\* a sample below the threshold has been through the peak step after a
\* crossing: both times are still the crossing's
C15_WitnessBelow ==
    /\ loop_pc = "detect"
    /\ Len(timestamps) >= 2
    /\ val <= R_THRESHOLD
    /\ ecg_data[Len(ecg_data) - 1] > R_THRESHOLD
    /\ last_peak_time = timestamps[Len(timestamps) - 1]
    /\ last_signal_time = timestamps[Len(timestamps) - 1]

\* C19: while the lock is free, ecg_data, timestamps and event_timeline
\* have one length, bpm_history and bpm_timestamps have one length, and
\* the last entry of event_timeline is the events active in event_state,
\* which is as the evaluation of that sample left it.
C19_HistoriesAligned ==
    RESET_LOCK = "free"
        => /\ Len(ecg_data) = Len(timestamps)
           /\ Len(timestamps) = Len(event_timeline)
           /\ Len(bpm_history) = Len(bpm_timestamps)
           /\ event_timeline # <<>>
                 => /\ Keys(event_timeline[Len(event_timeline)])
                          = {e \in CARDIAC_EVENTS : Active(e)}
                    /\ event_timeline[Len(event_timeline)]
                          = active_cardiac_flags(event_state)

\* C19 witness: the lock is free in a session that follows a reset, with
\* samples recorded, fewer BPM values than samples, and events flagged on
\* the last sample.
C19_Witness ==
    /\ RESET_LOCK = "free"
    /\ cycles > Len(ecg_data)
    /\ Len(ecg_data) >= 2
    /\ Len(bpm_history) = 1
    /\ event_timeline[Len(event_timeline)] # <<>>

\* the position in timestamps of the time x, and the last peak before it
IndexOf(x) == CHOOSE i \in 1..Len(timestamps) : timestamps[i] = x
\* (0 when the session has none)
RECURSIVE LastPeakBefore(_)
LastPeakBefore(i) ==
    IF i <= 1 THEN 0
    ELSE IF ecg_data[i - 1] > R_THRESHOLD THEN i - 1
    ELSE LastPeakBefore(i - 1)
\* the m-th accepted interval of the session, from the two histories: the
\* time from the peak before it, when that peak is in the session
AcceptedAt(m) == IndexOf(bpm_timestamps[m])
AcceptedRR(m) ==
    timestamps[AcceptedAt(m)] - timestamps[LastPeakBefore(AcceptedAt(m))]

\* C16: rr_intervals never holds more than 60 entries, qrs_widths and
\* qt_intervals never more than 30, and each holds, oldest first, the
\* values of the last accepted intervals of the session (the last 60, the
\* last 30), as the BPM history and the sample history record them.
C16_WindowsAreBoundedFifo ==
    LET n == Len(bpm_history)
        a == Len(rr_intervals)
        b == Len(qrs_widths)
        c == Len(qt_intervals)
    IN  /\ a <= 60 /\ b <= 30 /\ c <= 30
        /\ a = Min(n, 60) /\ b = Min(n, 30) /\ c = Min(n, 30)
        /\ \A j \in 1..a :
              /\ bpm_history[n - a + j] = MS_PER_MINUTE \div rr_intervals[j]
              /\ LastPeakBefore(AcceptedAt(n - a + j)) # 0
                    => rr_intervals[j] = AcceptedRR(n - a + j)
        /\ \A j \in 1..c : qt_intervals[j] = QT_RATIO * rr_intervals[a - c + j]
        /\ \A j \in 1..b :
              qrs_widths[j]
                 = QRS_BASE + Abs(ecg_data[AcceptedAt(n - b + j)] - R_THRESHOLD)

\* C16 witness: the session has accepted two intervals more than the RR
\* window holds, so the window is full and has evicted twice.
C16_Witness ==
    /\ Len(bpm_history) = 62
    /\ Len(rr_intervals) = 60
    /\ Len(qrs_widths) = 30
    /\ Len(qt_intervals) = 30
    /\ loop_pc = "detect"

\* the samples that have been through the peak step
Processed == IF loop_pc \in {"stamp", "peak"} THEN cycles - 1 ELSE cycles

\* C18: on a wave of period P = K * gap, longer than 0.25 s, with one
\* sample above the threshold per period, current_bpm is 60000 \div P (P in
\* milliseconds) from the processing of the second peak on, after every
\* sample.
C18_PeriodicSteadyState ==
    \A w \in WaveOf(clock, cycles) :
        (cycles > 0 /\ Processed \div w[2] >= 2)
            => current_bpm = MS_PER_MINUTE \div (w[2] * w[1])

\* C18 witness: three peaks of a wave with several samples per period have
\* been processed, and after them a sample below the threshold.
C18_Witness ==
    /\ loop_pc = "store"
    /\ val <= R_THRESHOLD
    /\ Len(bpm_history) >= 2
    /\ \E w \in WaveOf(clock, cycles) :
          /\ cycles > 0
          /\ w[2] >= 2
          /\ Processed \div w[2] >= 3
          /\ current_bpm = MS_PER_MINUTE \div (w[2] * w[1])

RateEvents == {"Bradycardia", "Tachycardia", "Ventricular Tachycardia"}
RateConsistent(S) ==
    /\ "Ventricular Tachycardia" \in S => "Tachycardia" \in S
    /\ "Bradycardia" \in S
          => "Tachycardia" \notin S /\ "Ventricular Tachycardia" \notin S

\* C20: in the active set an evaluation leaves, and in every stored flag
\* snapshot, Ventricular Tachycardia comes with Tachycardia and Bradycardia
\* with neither; current_bpm and every entry of bpm_history lie in 0..239;
\* an evaluation with current_bpm = 0 leaves none of the three active.
C20_RateEventsConsistent ==
    /\ RateConsistent(Keys(event_state))
    /\ \A i \in 1..Len(event_timeline) :
          RateConsistent(Keys(event_timeline[i]))
    /\ current_bpm \in 0..239
    /\ \A i \in 1..Len(bpm_history) : bpm_history[i] \in 0..239
    /\ (loop_pc = "store" /\ current_bpm = 0)
          => RateEvents \cap Keys(event_state) = {}

\* C20 witness: an interval longer than 60 s has been accepted after one
\* of 239 beats per minute, and the evaluation has run on a BPM of 0.
C20_Witness ==
    /\ loop_pc = "store"
    /\ bpm_history = <<239, 0>>
    /\ current_bpm = 0
    /\ RateEvents \cap Keys(event_state) = {}
    /\ RateEvents \cap Keys(event_timeline[Len(event_timeline)])
          = {"Tachycardia", "Ventricular Tachycardia"}

\* an evaluation that leaves Bradycardia active
C20_WitnessBrady ==
    /\ loop_pc = "store"
    /\ current_bpm = 49
    /\ RateEvents \cap Keys(event_state) = {"Bradycardia"}

=============================================================================
